---- MODULE Spec2Model ----
(***************************************************************************)
(* Gurukul admissions: the student-to-class assignment of                   *)
(* Gurukul_database.py (has_prereq, is_eligible, assign_students).          *)
(*                                                                         *)
(* Tables are sequences of records (row order is the file order).  A cell  *)
(* that can be missing is a sequence of length 0 (NaN / None) or 1 (the     *)
(* value).  A Python str is a sequence of one-character strings.            *)
(***************************************************************************)
EXTENDS Integers, Sequences, FiniteSets, TLC

VARIABLES
    classes_df,           \* classes.csv
    students_df,          \* students.csv
    preferences_df,       \* preferences.csv
    applications_df,      \* applications.csv
    enrollments,          \* list of enrollment dicts
    application_updates,  \* list of status dicts
    rejection_reasons,    \* list of rejection dicts
    remaining_capacity,   \* dict class_id -> seats left
    schools,              \* schools the outer for loop has not started yet
    school_id,            \* the outer loop variable (a cell: NaN before the loop)
    eligible_prefs,       \* sorted eligible rows of the current school
    groups,               \* student ids the inner groupby loop has not visited yet
    merged,               \* the joined, filtered preference rows
    pc,                   \* position: for_school, for_student, done, call, return
    student_row,          \* is_eligible's first argument (evaluator runs)
    class_row,            \* is_eligible's second argument (evaluator runs)
    result,               \* is_eligible's return value (evaluator runs)
    first_run             \* what an earlier run on the same files returned (NaN: none)

vars == <<classes_df, students_df, preferences_df, applications_df, enrollments,
          application_updates, rejection_reasons, remaining_capacity, schools,
          school_id, eligible_prefs, groups, pc, student_row, class_row, result,
          merged, first_run>>

inputs == <<classes_df, students_df, preferences_df, applications_df, merged>>

(***************************************************************************)
(* Missing cells.                                                          *)
(***************************************************************************)
NaN == <<>>

Some(v) == <<v>>

isna(x) == x = NaN

notna(x) == x # NaN

Val(x) == x[1]

\* Python truth value of a cell holding a bool: float('nan') is truthy
Truthy(x) == IF isna(x) THEN TRUE ELSE Val(x)

\* a < b on cells: every comparison with NaN is False
Lt(a, b) == notna(a) /\ notna(b) /\ Val(a) < Val(b)

Gt(a, b) == notna(a) /\ notna(b) /\ Val(a) > Val(b)

(***************************************************************************)
(* str.strip and str.split(',') on character sequences.                    *)
(***************************************************************************)
IsSpace(ch) == ch = " "

RECURSIVE lstrip(_)
lstrip(s) == IF s # <<>> /\ IsSpace(Head(s)) THEN lstrip(Tail(s)) ELSE s

RECURSIVE rstrip(_)
rstrip(s) ==
    IF s # <<>> /\ IsSpace(s[Len(s)]) THEN rstrip(SubSeq(s, 1, Len(s) - 1)) ELSE s

strip(s) == rstrip(lstrip(s))

\* s.split(','): the list of the pieces between commas; ''.split(',') is ['']
RECURSIVE SplitFrom(_, _)
SplitFrom(s, cur) ==
    IF s = <<>> THEN <<cur>>
    ELSE IF Head(s) = "," THEN <<cur>> \o SplitFrom(Tail(s), <<>>)
    ELSE SplitFrom(Tail(s), Append(cur, Head(s)))

split(s) == SplitFrom(s, <<>>)

ToSet(list) == {list[i] : i \in DOMAIN list}

(***************************************************************************)
(* has_prereq and is_eligible.                                             *)
(***************************************************************************)
\* a variant that is content with any one of the required courses
has_prereq_any(completed_str, prereq_str) ==
    IF isna(prereq_str) \/ strip(Val(prereq_str)) = <<>> THEN TRUE
    ELSE LET completed == IF notna(completed_str)
                          THEN ToSet(split(Val(completed_str))) ELSE {}
             required == ToSet(split(Val(prereq_str)))
         IN  required \cap completed # {}

has_prereq(completed_str, prereq_str) ==
    IF isna(prereq_str) \/ strip(Val(prereq_str)) = <<>> THEN TRUE
    ELSE LET completed == IF notna(completed_str)
                          THEN ToSet(split(Val(completed_str))) ELSE {}
             required == ToSet(split(Val(prereq_str)))
         IN  required \subseteq completed

\* student_type in allowed: a missing type (NaN) is in no set of strings
TypeIn(t, allowed) == notna(t) /\ Val(t) \in allowed

Verdict(ok, why) == [eligible |-> ok, reason |-> why]

\* f"Type '{student_type}' not allowed"
TypeReason(t) == <<"Type '", t, "' not allowed">>

\* the fee rule tested before the age rules
is_eligible_fee_first(s, c) ==
    IF Truthy(c.fee_required) /\ ~Truthy(s.fee_paid)
        THEN Verdict(FALSE, <<"Fee not paid">>)
    ELSE IF notna(c.min_age) /\ Lt(s.age, c.min_age)
        THEN Verdict(FALSE, <<"Age below minimum">>)
    ELSE IF notna(c.max_age) /\ Gt(s.age, c.max_age)
        THEN Verdict(FALSE, <<"Age above maximum">>)
    ELSE IF notna(c.min_score) /\ notna(s.test_score) /\ Lt(s.test_score, c.min_score)
        THEN Verdict(FALSE, <<"Test score below minimum">>)
    ELSE IF ~has_prereq(s.completed_courses, c.prerequisites)
        THEN Verdict(FALSE, <<"Missing prerequisite(s)">>)
    ELSE IF notna(c.student_type_restrictions)
            /\ ~TypeIn(s.student_type, ToSet(split(Val(c.student_type_restrictions))))
        THEN Verdict(FALSE, TypeReason(s.student_type))
    ELSE Verdict(TRUE, <<"Eligible">>)

\* a missing test score fails a class that sets a minimum
is_eligible_strict_score(s, c) ==
    IF notna(c.min_age) /\ Lt(s.age, c.min_age)
        THEN Verdict(FALSE, <<"Age below minimum">>)
    ELSE IF notna(c.max_age) /\ Gt(s.age, c.max_age)
        THEN Verdict(FALSE, <<"Age above maximum">>)
    ELSE IF Truthy(c.fee_required) /\ ~Truthy(s.fee_paid)
        THEN Verdict(FALSE, <<"Fee not paid">>)
    ELSE IF notna(c.min_score) /\ ~(notna(s.test_score) /\ ~Lt(s.test_score, c.min_score))
        THEN Verdict(FALSE, <<"Test score below minimum">>)
    ELSE IF ~has_prereq(s.completed_courses, c.prerequisites)
        THEN Verdict(FALSE, <<"Missing prerequisite(s)">>)
    ELSE IF notna(c.student_type_restrictions)
            /\ ~TypeIn(s.student_type, ToSet(split(Val(c.student_type_restrictions))))
        THEN Verdict(FALSE, TypeReason(s.student_type))
    ELSE Verdict(TRUE, <<"Eligible">>)

is_eligible(s, c) ==
    IF notna(c.min_age) /\ Lt(s.age, c.min_age)
        THEN Verdict(FALSE, <<"Age below minimum">>)
    ELSE IF notna(c.max_age) /\ Gt(s.age, c.max_age)
        THEN Verdict(FALSE, <<"Age above maximum">>)
    ELSE IF Truthy(c.fee_required) /\ ~Truthy(s.fee_paid)
        THEN Verdict(FALSE, <<"Fee not paid">>)
    ELSE IF notna(c.min_score) /\ notna(s.test_score) /\ Lt(s.test_score, c.min_score)
        THEN Verdict(FALSE, <<"Test score below minimum">>)
    ELSE IF ~has_prereq(s.completed_courses, c.prerequisites)
        THEN Verdict(FALSE, <<"Missing prerequisite(s)">>)
    ELSE IF notna(c.student_type_restrictions)
            /\ ~TypeIn(s.student_type, ToSet(split(Val(c.student_type_restrictions))))
        THEN Verdict(FALSE, TypeReason(s.student_type))
    ELSE Verdict(TRUE, <<"Eligible">>)

(***************************************************************************)
(* DataFrame operations used by assign_students.                           *)
(***************************************************************************)
NaNStudent == [age |-> NaN, fee_paid |-> NaN, test_score |-> NaN,
               completed_courses |-> NaN, student_type |-> NaN]

NaNClass == [capacity |-> NaN, min_age |-> NaN, max_age |-> NaN, fee_required |-> NaN,
             min_score |-> NaN, prerequisites |-> NaN,
             student_type_restrictions |-> NaN]

NaNSchool == [school_id |-> NaN]

\* left.merge(right, on=key, how='left'): left order kept, one output row per
\* matching right row (in right order), the right columns NaN without a match
RECURSIVE LeftJoin(_, _, _, _)
LeftJoin(left, right, key, nanRow) ==
    IF left = <<>> THEN <<>>
    ELSE LET l == Head(left)
             matches == SelectSeq(right, LAMBDA r : r[key] = l[key])
             out == IF matches = <<>> THEN <<l @@ nanRow>>
                    ELSE [i \in DOMAIN matches |-> l @@ matches[i]]
         IN  out \o LeftJoin(Tail(left), right, key, nanRow)

\* dropna(subset=[student_id, class_id, school_id, rank]); the first two and rank
\* are never missing in a preference row here, school_id is after the left join
dropna(rows) == SelectSeq(rows, LAMBDA r : notna(r.school_id))

Merge(prefs, studs, clss, apps) ==
    dropna(LeftJoin(LeftJoin(LeftJoin(prefs, studs, "student_id", NaNStudent),
                             clss, "class_id", NaNClass),
                    apps, "student_id", NaNSchool))

\* a students.csv row; every student here has paid the fee, has no completed
\* courses and is of type X, and those three columns are kept out of the state
StudentRow(sid, a, score) == [student_id |-> sid, age |-> Some(a), test_score |-> score]

StudentColumns(r) ==
    r @@ [fee_paid |-> Some(TRUE), completed_courses |-> NaN,
          student_type |-> Some(<<"X">>)]

\* a classes.csv row; class 1 admits up to age 1 and no class has another rule,
\* and the rule columns are kept out of the state
ClassRow(cid, cap) == [class_id |-> cid, capacity |-> Some(cap)]

ClassColumns(r) ==
    r @@ [min_age |-> NaN, max_age |-> IF r.class_id = 1 THEN Some(1) ELSE NaN,
          fee_required |-> Some(FALSE), min_score |-> NaN, prerequisites |-> NaN,
          student_type_restrictions |-> NaN]

\* pd.read_csv of students.csv and of classes.csv: all the columns of each row
ReadStudents(table) == [i \in DOMAIN table |-> StudentColumns(table[i])]

ReadClasses(table) == [i \in DOMAIN table |-> ClassColumns(table[i])]


\* the columns of a joined row that the loops read after the sort
Keep(r) ==
    [student_id |-> r.student_id, class_id |-> r.class_id, rank |-> r.rank,
     submission_date |-> r.submission_date, test_score |-> r.test_score]

KeepAll(rows) == [i \in DOMAIN rows |-> Keep(rows[i])]

\* NaN treated as the largest value: last ascending, first descending
CellBeforeNaNLargest(x, y, asc) ==
    IF asc THEN notna(x) /\ (isna(y) \/ Val(x) < Val(y))
    ELSE notna(y) /\ (isna(x) \/ Val(x) > Val(y))

\* one key of sort_values: ascending or descending, NaN last either way
CellBefore(x, y, asc) ==
    IF isna(x) THEN FALSE
    ELSE IF isna(y) THEN TRUE
    ELSE IF asc THEN Val(x) < Val(y) ELSE Val(x) > Val(y)

\* the submission date sorted descending
RowBeforeLatestFirst(a, b) ==
    \/ a.rank < b.rank
    \/ /\ a.rank = b.rank
       /\ \/ CellBefore(a.submission_date, b.submission_date, FALSE)
          \/ /\ a.submission_date = b.submission_date
             /\ CellBefore(a.test_score, b.test_score, FALSE)

\* by=['rank', 'submission_date', 'test_score'], ascending=[True, True, False]
RowBefore(a, b) ==
    \/ a.rank < b.rank
    \/ /\ a.rank = b.rank
       /\ \/ CellBefore(a.submission_date, b.submission_date, TRUE)
          \/ /\ a.submission_date = b.submission_date
             /\ CellBefore(a.test_score, b.test_score, FALSE)

\* x goes after every row that does not sort strictly after it (stable)
RECURSIVE InsertRow(_, _)
InsertRow(sorted, x) ==
    IF sorted = <<>> THEN <<x>>
    ELSE IF RowBefore(x, Head(sorted)) THEN <<x>> \o sorted
    ELSE <<Head(sorted)>> \o InsertRow(Tail(sorted), x)

RECURSIVE SortFrom(_, _)
SortFrom(rows, acc) ==
    IF rows = <<>> THEN acc ELSE SortFrom(Tail(rows), InsertRow(acc, Head(rows)))

sort_values(rows) == SortFrom(rows, <<>>)

\* one visit per row instead of one per student
RECURSIVE GroupKeysPerRow(_, _)
GroupKeysPerRow(rows, seen) ==
    IF rows = <<>> THEN <<>>
    ELSE <<Head(rows).student_id>> \o GroupKeysPerRow(Tail(rows), seen)

\* groupby with its default sort=True: the groups in ascending student_id order
RECURSIVE GroupKeysSorted(_, _)
GroupKeysSorted(rows, seen) ==
    LET ids == {rows[i].student_id : i \in DOMAIN rows} \ seen
    IN  IF ids = {} THEN <<>>
        ELSE LET m == CHOOSE x \in ids : \A y \in ids : x <= y
             IN  <<m>> \o GroupKeysSorted(rows, seen \cup {m})

\* keys of groupby('student_id', sort=False): order of first appearance
RECURSIVE GroupKeys(_, _)
GroupKeys(rows, seen) ==
    IF rows = <<>> THEN <<>>
    ELSE IF Head(rows).student_id \in seen THEN GroupKeys(Tail(rows), seen)
    ELSE <<Head(rows).student_id>>
         \o GroupKeys(Tail(rows), seen \cup {Head(rows).student_id})

\* the group of a student taken to be all the rows of the school
GroupWholeSchool(rows, sid) == rows

Group(rows, sid) == SelectSeq(rows, LAMBDA r : r.student_id = sid)

\* sorted(merged['school_id'].unique())
RECURSIVE Sorted(_)
Sorted(S) ==
    IF S = {} THEN <<>>
    ELSE LET m == CHOOSE x \in S : \A y \in S : x <= y
         IN  <<m>> \o Sorted(S \ {m})

\* sorted() left out: unique() keeps the order of first appearance
RECURSIVE FirstSeen(_, _)
FirstSeen(rows, seen) ==
    IF rows = <<>> THEN <<>>
    ELSE IF Val(Head(rows).school_id) \in seen THEN FirstSeen(Tail(rows), seen)
    ELSE <<Val(Head(rows).school_id)>>
         \o FirstSeen(Tail(rows), seen \cup {Val(Head(rows).school_id)})

SchoolOrderUnsorted(rows) == FirstSeen(rows, {})

SchoolOrder(rows) == Sorted({Val(rows[i].school_id) : i \in DOMAIN rows})

\* classes_df.set_index('class_id')['capacity'].to_dict(): the last row of an id wins
Capacities(clss) ==
    [c \in {clss[i].class_id : i \in DOMAIN clss} |->
        LET last == CHOOSE i \in DOMAIN clss :
                        /\ clss[i].class_id = c
                        /\ \A j \in DOMAIN clss : clss[j].class_id = c => j <= i
        IN  Val(clss[last].capacity)]

capacities == Capacities(classes_df)

\* a default of one seat for a class without an entry
GetOrOne(d, k) == IF k \in DOMAIN d THEN d[k] ELSE 1

\* remaining_capacity.get(cid, 0)
Get(d, k) == IF k \in DOMAIN d THEN d[k] ELSE 0

\* the seat test off by one: a full class still passes
HasSeatAtZero(d, cid) == cid \in DOMAIN d /\ d[cid] >= 0

HasSeat(d, cid) == Get(d, cid) > 0

\* index of the first row of the group whose class has a seat, 0 if none
\* the last row with a seat instead of the first
RECURSIVE LastFitFrom(_, _, _)
LastFitFrom(group, d, i) ==
    IF i < 1 THEN 0
    ELSE IF HasSeat(d, group[i].class_id) THEN i
    ELSE LastFitFrom(group, d, i - 1)

LastFit(group, d) == LastFitFrom(group, d, Len(group))

\* only the top row of the group is tried
FirstFitTopOnly(group, d) == IF HasSeat(d, group[1].class_id) THEN 1 ELSE 0

RECURSIVE FirstFitFrom(_, _, _)
FirstFitFrom(group, d, i) ==
    IF i > Len(group) THEN 0
    ELSE IF HasSeat(d, group[i].class_id) THEN i
    ELSE FirstFitFrom(group, d, i + 1)

FirstFit(group, d) == FirstFitFrom(group, d, 1)

\* the filter on 'eligible' left out
AllRows(rows) == rows

\* school_data.apply(is_eligible(row, row)) and the filter on 'eligible'
EligibleRows(rows) == SelectSeq(rows, LAMBDA r : is_eligible(r, r).eligible)

SchoolData(rows, k) == SelectSeq(rows, LAMBDA r : r.school_id = Some(k))

\* f"E{len(enrollments)+1001:04d}": the number behind the E
IdOffset == 1001

\* the id taken from the student instead of the counter
EnrollmentIdOfStudent(n, sid, cid) ==
    [enrollment_id |-> sid + IdOffset - 1, student_id |-> sid, class_id |-> cid,
     enrollment_date |-> "now", status |-> "Enrolled"]

\* a counter that a second run continues instead of len(enrollments)
EnrollmentGlobalCounter(n, sid, cid) ==
    [enrollment_id |->
         n + IdOffset + (IF notna(first_run) THEN Len(Val(first_run).enrollments) ELSE 0),
     student_id |-> sid, class_id |-> cid,
     enrollment_date |-> "now", status |-> "Enrolled"]

Enrollment(n, sid, cid) ==
    [enrollment_id |-> n + IdOffset, student_id |-> sid, class_id |-> cid,
     enrollment_date |-> "now", status |-> "Enrolled"]

Approved(sid, k, cid) ==
    [student_id |-> sid, school_id |-> k, status |-> "Approved",
     class_id |-> Some(cid), assigned_date |-> Some("now")]

\* a waitlist record that carries the date of the decision
WaitlistDated(sid, k, top) ==
    [student_id |-> sid, school_id |-> k, status |-> "Waitlist",
     class_id |-> top, assigned_date |-> Some("now")]

Waitlist(sid, k, top) ==
    [student_id |-> sid, school_id |-> k, status |-> "Waitlist",
     class_id |-> top, assigned_date |-> NaN]

Rejection(sid) ==
    [student_id |-> sid, reason |-> "No available capacity in preferred classes"]

\* no class named in a waitlist record
NoChoice(group) == NaN

\* the last row of the group instead of the first
LastChoice(group) == IF group # <<>> THEN Some(group[Len(group)].class_id) ELSE NaN

\* group.iloc[0]['class_id'] if not group.empty else None
TopChoice(group) == IF group # <<>> THEN Some(group[1].class_id) ELSE NaN

(***************************************************************************)
(* assign_students: the loop over schools and the loop over student groups. *)
(***************************************************************************)
\* end of one group: back to the school loop after the last group
AfterGroup ==
    /\ groups' = Tail(groups)
    /\ pc' = IF Tail(groups) = <<>> THEN "for_school" ELSE "for_student"

\* the next school has no eligible preference: continue
SkipSchool ==
    /\ pc = "for_school"
    /\ schools # <<>>
    /\ EligibleRows(SchoolData(merged, Head(schools))) = <<>>
    /\ school_id' = Some(Head(schools))
    /\ schools' = Tail(schools)
    /\ UNCHANGED <<inputs, first_run, enrollments, application_updates, rejection_reasons,
                   remaining_capacity, eligible_prefs, groups, pc,
                   student_row, class_row, result>>

\* the next school has eligible preferences: sort them and group by student
StartSchool ==
    /\ pc = "for_school"
    /\ schools # <<>>
    /\ LET eligible == EligibleRows(SchoolData(merged, Head(schools)))
       IN  /\ eligible # <<>>
           /\ eligible_prefs' = KeepAll(sort_values(eligible))
           /\ groups' = GroupKeys(sort_values(eligible), {})
    /\ school_id' = Some(Head(schools))
    /\ schools' = Tail(schools)
    /\ pc' = "for_student"
    /\ UNCHANGED <<inputs, first_run, enrollments, application_updates, rejection_reasons,
                   remaining_capacity, student_row, class_row, result>>

\* one student group: a preference has a seat
AssignStudent ==
    /\ pc = "for_student"
    /\ LET sid == Head(groups)
           group == Group(eligible_prefs, sid)
           i == FirstFit(group, remaining_capacity)
       IN  /\ i # 0
           /\ LET cid == group[i].class_id
              IN  /\ enrollments' =
                         Append(enrollments, Enrollment(Len(enrollments), sid, cid))
                  /\ remaining_capacity' =
                         [remaining_capacity EXCEPT ![cid] = @ - 1]
                  /\ application_updates' =
                         Append(application_updates, Approved(sid, Val(school_id), cid))
    /\ AfterGroup
    /\ UNCHANGED <<inputs, first_run, rejection_reasons, schools, school_id, eligible_prefs,
                   student_row, class_row, result>>

\* one student group: no preference has a seat
WaitlistStudent ==
    /\ pc = "for_student"
    /\ LET sid == Head(groups)
           group == Group(eligible_prefs, sid)
       IN  /\ FirstFit(group, remaining_capacity) = 0
           /\ application_updates' =
                  Append(application_updates,
                         Waitlist(sid, Val(school_id), TopChoice(group)))
           /\ rejection_reasons' = Append(rejection_reasons, Rejection(sid))
    /\ AfterGroup
    /\ UNCHANGED <<inputs, first_run, enrollments, remaining_capacity, schools, school_id,
                   eligible_prefs, student_row, class_row, result>>

\* the school loop is exhausted
Finish ==
    /\ pc = "for_school"
    /\ schools = <<>>
    /\ pc' = "done"
    /\ UNCHANGED <<inputs, first_run, enrollments, application_updates, rejection_reasons,
                   remaining_capacity, schools, school_id, eligible_prefs, groups,
                   student_row, class_row, result>>

Next == SkipSchool \/ StartSchool \/ AssignStudent \/ WaitlistStudent \/ Finish

\* the state after loading the four tables (lines 75-103)
Load(clss, studs, prefs, apps) ==
    /\ classes_df = clss
    /\ students_df = studs
    /\ preferences_df = prefs
    /\ applications_df = apps
    /\ merged = Merge(prefs, ReadStudents(studs), ReadClasses(clss), apps)
    /\ enrollments = <<>>
    /\ application_updates = <<>>
    /\ rejection_reasons = <<>>
    /\ remaining_capacity = Capacities(clss)
    /\ schools = SchoolOrder(merged)
    /\ school_id = NaN
    /\ eligible_prefs = <<>>
    /\ groups = <<>>
    /\ first_run = NaN

(***************************************************************************)
(* The tables a run starts from.                                           *)
(***************************************************************************)
MaxCap == 1

MaxPrefs == 3

StudentIds == {1, 2}

ClassIds == {1, 2}

SchoolIds == {1, 2}

Ranks == {1, 2}

Dates == {1, 2}

Ages == {1, 2}

PrefRow(sid, cid, r, d) ==
    [student_id |-> sid, class_id |-> cid, rank |-> r, submission_date |-> Some(d)]

AppRow(sid, k) == [student_id |-> sid, school_id |-> Some(k)]

\* the rows of a function over ids, in ascending id order
RECURSIVE TableOf(_, _)
TableOf(f, ids) ==
    IF ids = {} THEN <<>>
    ELSE LET m == CHOOSE x \in ids : \A y \in ids : x <= y
         IN  <<f[m]>> \o TableOf(f, ids \ {m})

\* applications.csv: one row per (student, school) link, by student then school
RECURSIVE AppTable(_, _)
AppTable(links, ids) ==
    IF ids = {} THEN <<>>
    ELSE LET m == CHOOSE x \in ids : \A y \in ids : x <= y
             ks == Sorted(links[m])
         IN  [i \in DOMAIN ks |-> AppRow(m, ks[i])] \o AppTable(links, ids \ {m})

\* the preference lists one student can file: up to two rows, no class twice
OwnPrefs(sid) ==
    LET row == {PrefRow(sid, c, r, d) : c \in ClassIds, r \in Ranks, d \in Dates}
    IN  {<<>>} \cup {<<x>> : x \in row}
        \cup {<<p[1], p[2]>> : p \in {q \in row \X row : q[1].class_id # q[2].class_id}}

\* preferences.csv: the rows of student 1, then the rows of student 2 (nothing in
\* the program reads the value of a student id, so the other file orders are
\* these with the two ids exchanged)
PrefTables ==
    {t \in {a \o b : a \in OwnPrefs(1), b \in OwnPrefs(2)} : Len(t) <= MaxPrefs}

\* who is how old and applies where: either both students apply to school 1 and
\* the ages vary, or both are of age 1 and the applications vary (none, one
\* school, both schools)
Worlds ==
    {[ages |-> a, links |-> [s \in StudentIds |-> {1}]] : a \in [StudentIds -> Ages]}
    \cup {[ages |-> [s \in StudentIds |-> 1], links |-> l] :
             l \in [StudentIds -> SUBSET SchoolIds]}

\* classes.csv: a class is closed (no seat) or offers MaxCap seats
CapacityTables == [ClassIds -> {0, MaxCap}]

Init ==
    \E caps \in CapacityTables, w \in Worlds, prefs \in PrefTables :
        /\ Load(TableOf([c \in ClassIds |-> ClassRow(c, caps[c])], ClassIds),
                TableOf([s \in StudentIds |-> StudentRow(s, w.ages[s], Some(1))],
                        StudentIds),
                prefs,
                AppTable(w.links, StudentIds))
        /\ pc = "for_school"
        /\ student_row = NaN
        /\ class_row = NaN
        /\ result = NaN

Spec == Init /\ [][Next]_vars

(***************************************************************************)
(* Runs of the evaluator alone: one call of is_eligible on one pair.       *)
(***************************************************************************)
MaxAge == 3

MaxScore == 2

\* cells of a course-list column: A  B  A,B  A, B  B,A  A,  and a blank
CourseLists ==
    {<<"A">>, <<"B">>, <<"A", ",", "B">>, <<"A", ",", " ", "B">>, <<"B", ",", "A">>,
     <<"A", ",">>, <<" ">>}

\* cells of the restrictions column: X  Y  Y,X  Y, X
TypeLists == {<<"X">>, <<"Y">>, <<"Y", ",", "X">>, <<"Y", ",", " ", "X">>}

Types == {<<"X">>, <<"Y">>}

Opt(S) == {NaN} \cup {Some(x) : x \in S}

EvalStudents ==
    [age : {Some(a) : a \in 1..MaxAge}, fee_paid : {Some(TRUE), Some(FALSE)},
     test_score : Opt(1..MaxScore), completed_courses : Opt(CourseLists),
     student_type : {Some(t) : t \in Types}]

EvalClasses ==
    [min_age : Opt({2}), max_age : Opt({2}), fee_required : {Some(TRUE), Some(FALSE)},
     min_score : Opt({2}), prerequisites : Opt(CourseLists),
     student_type_restrictions : Opt(TypeLists)]

InitEval ==
    /\ Load(<<>>, <<>>, <<>>, <<>>)
    /\ student_row \in EvalStudents
    /\ class_row \in EvalClasses
    /\ result = NaN
    /\ pc = "call"

Evaluate ==
    /\ pc = "call"
    /\ result' = Some(is_eligible(student_row, class_row))
    /\ pc' = "return"
    /\ UNCHANGED <<inputs, first_run, enrollments, application_updates, rejection_reasons,
                   remaining_capacity, schools, school_id, eligible_prefs, groups,
                   student_row, class_row>>

NextEval == Evaluate

SpecEval == InitEval /\ [][NextEval]_vars

(***************************************************************************)
(* Runs of assign_students on one school with test scores that differ or   *)
(* are missing: class 1 is open, the age of student 1 and the seats of     *)
(* class 2 vary.                                                           *)
(***************************************************************************)
ScoreTables == [StudentIds -> Opt(1..MaxScore)]

InitScores ==
    \E caps \in {t \in CapacityTables : t[1] = MaxCap}, a \in Ages,
       scores \in ScoreTables, prefs \in PrefTables :
        /\ Load(TableOf([c \in ClassIds |-> ClassRow(c, caps[c])], ClassIds),
                TableOf([s \in StudentIds |->
                            StudentRow(s, IF s = 1 THEN a ELSE 1, scores[s])],
                        StudentIds),
                prefs,
                AppTable([s \in StudentIds |-> {1}], StudentIds))
        /\ pc = "for_school"
        /\ student_row = NaN
        /\ class_row = NaN
        /\ result = NaN

SpecScores == InitScores /\ [][Next]_vars

(***************************************************************************)
(* Runs of assign_students where classes.csv has a row for class 1 only,    *)
(* while the preferences name classes 1 and 2.                              *)
(***************************************************************************)
InitUnknown ==
    \E cap \in {0, MaxCap}, w \in Worlds, prefs \in PrefTables :
        /\ Load(<<ClassRow(1, cap)>>,
                TableOf([s \in StudentIds |-> StudentRow(s, w.ages[s], Some(1))],
                        StudentIds),
                prefs,
                AppTable(w.links, StudentIds))
        /\ pc = "for_school"
        /\ student_row = NaN
        /\ class_row = NaN
        /\ result = NaN

SpecUnknown == InitUnknown /\ [][Next]_vars

(***************************************************************************)
(* assign_students called a second time on the same four files, with the    *)
(* same clock: both classes open, ages and applications vary.               *)
(***************************************************************************)
\* what a run leaves behind: the three result lists and the ledger
Outputs ==
    [enrollments |-> enrollments, application_updates |-> application_updates,
     rejection_reasons |-> rejection_reasons, remaining_capacity |-> remaining_capacity]

\* the second call: the files are read and merged again, the lists start empty
RunAgain ==
    /\ pc = "done"
    /\ isna(first_run)
    /\ first_run' = Some(Outputs)
    /\ merged' = Merge(preferences_df, ReadStudents(students_df),
                       ReadClasses(classes_df), applications_df)
    /\ enrollments' = <<>>
    /\ application_updates' = <<>>
    /\ rejection_reasons' = <<>>
    /\ remaining_capacity' = Capacities(classes_df)
    /\ schools' = SchoolOrder(merged')
    /\ school_id' = NaN
    /\ eligible_prefs' = <<>>
    /\ groups' = <<>>
    /\ pc' = "for_school"
    /\ UNCHANGED <<classes_df, students_df, preferences_df, applications_df,
                   student_row, class_row, result>>

InitTwice ==
    \E w \in Worlds, prefs \in PrefTables :
        /\ Load(TableOf([c \in ClassIds |-> ClassRow(c, MaxCap)], ClassIds),
                TableOf([s \in StudentIds |-> StudentRow(s, w.ages[s], Some(1))],
                        StudentIds),
                prefs,
                AppTable(w.links, StudentIds))
        /\ pc = "for_school"
        /\ student_row = NaN
        /\ class_row = NaN
        /\ result = NaN

NextTwice ==
    SkipSchool \/ StartSchool \/ AssignStudent \/ WaitlistStudent \/ Finish \/ RunAgain

SpecTwice == InitTwice /\ [][NextTwice]_vars

(***************************************************************************)
(* Vocabulary of the properties.                                           *)
(***************************************************************************)
Last(seq) == seq[Len(seq)]

Appended(old, new) == Len(new) = Len(old) + 1 /\ SubSeq(new, 1, Len(old)) = old

EnrollmentsOf(sid) == {i \in DOMAIN enrollments : enrollments[i].student_id = sid}

EnrollmentsIn(cid) == {i \in DOMAIN enrollments : enrollments[i].class_id = cid}

UpdatesOf(sid) ==
    {i \in DOMAIN application_updates : application_updates[i].student_id = sid}

RejectionsOf(sid) ==
    {i \in DOMAIN rejection_reasons : rejection_reasons[i].student_id = sid}

\* the students with a row that survives the join and the filter
Processed == {merged[i].student_id : i \in DOMAIN merged}

\* the schools a student's surviving rows name
SchoolsOf(sid) ==
    {Val(merged[i].school_id) : i \in {j \in DOMAIN merged : merged[j].student_id = sid}}

\* the surviving rows of a student in a school, and the eligible ones among them
RowsOf(sid, k) ==
    {i \in DOMAIN merged :
        merged[i].student_id = sid /\ merged[i].school_id = Some(k)}

EligibleOf(sid, k) ==
    {i \in RowsOf(sid, k) : is_eligible(merged[i], merged[i]).eligible}

\* row j of the joined table is ranked before row i of the same student:
\* lower rank, then earlier date (a missing date after every date), then file order
DateEarlier(x, y) == notna(x) /\ (isna(y) \/ Val(x) < Val(y))

Preferred(j, i) ==
    \/ merged[j].rank < merged[i].rank
    \/ /\ merged[j].rank = merged[i].rank
       /\ \/ DateEarlier(merged[j].submission_date, merged[i].submission_date)
          \/ /\ merged[j].submission_date = merged[i].submission_date
             /\ j < i

Seats(cid) == IF cid \in DOMAIN remaining_capacity THEN remaining_capacity[cid] ELSE 0

NoDuplicates(seq) == \A i, j \in DOMAIN seq : seq[i] = seq[j] => i = j

(***************************************************************************)
(* C1: in every state of a run, every class with a non-negative initial     *)
(* capacity has remaining_capacity >= 0, and its initial capacity minus its *)
(* remaining capacity is the number of enrollments emitted so far for it    *)
(* (so the ledger is never decremented at 0).                               *)
(***************************************************************************)
CapacityLedgerInv ==
    /\ DOMAIN remaining_capacity = DOMAIN capacities
    /\ \A c \in DOMAIN capacities :
          capacities[c] >= 0 =>
              /\ remaining_capacity[c] >= 0
              /\ capacities[c] - remaining_capacity[c] = Cardinality(EnrollmentsIn(c))

\* a class was filled and a later student found it full
CapacityLedgerWitness ==
    \E c \in DOMAIN capacities :
        /\ capacities[c] > 0
        /\ remaining_capacity[c] = 0
        /\ \E i \in DOMAIN application_updates :
              /\ application_updates[i].status = "Waitlist"
              /\ application_updates[i].class_id = Some(c)

(***************************************************************************)
(* C2: after a complete run every student with a row surviving the join and *)
(* the filter has exactly one status update.                                *)
(***************************************************************************)
ExactlyOneUpdatePerProcessedStudent ==
    pc = "done" => \A s \in Processed : Cardinality(UpdatesOf(s)) = 1

SameRankEarlierDate(a, b, k, c) ==
    \E i \in EligibleOf(a, k), j \in EligibleOf(b, k) :
        /\ merged[i].class_id = c
        /\ merged[j].class_id = c
        /\ merged[i].rank = merged[j].rank
        /\ notna(merged[i].submission_date) /\ notna(merged[j].submission_date)
        /\ Val(merged[i].submission_date) < Val(merged[j].submission_date)

EnrolledAndWaitlisted(a, b, c) ==
    /\ \E i \in EnrollmentsOf(a) : enrollments[i].class_id = c
    /\ \E i \in UpdatesOf(b) :
          /\ application_updates[i].status = "Waitlist"
          /\ application_updates[i].class_id = Some(c)

TieBreakByDate ==
    pc = "done" =>
        \A a, b \in StudentIds, k \in SchoolIds, c \in DOMAIN capacities :
            /\ a # b
            /\ capacities[c] = 1
            /\ SchoolsOf(a) = {k} /\ SchoolsOf(b) = {k}
            /\ SameRankEarlierDate(a, b, k, c)
            => EnrolledAndWaitlisted(a, b, c)

(***************************************************************************)
(* C4 amended: the same, provided this preference is the only eligible      *)
(* preference row of each of the two students and no third student holds an *)
(* eligible preference for the class.                                       *)
(***************************************************************************)
OnlyChoice(a, k, c) ==
    /\ Cardinality(EligibleOf(a, k)) = 1
    /\ \A i \in EligibleOf(a, k) : merged[i].class_id = c

NoOtherTaker(a, b, c) ==
    \A t \in Processed \ {a, b} :
        \A k \in SchoolsOf(t) :
            \A i \in EligibleOf(t, k) : merged[i].class_id # c

TieBreakByDateOnlyChoice ==
    pc = "done" =>
        \A a, b \in StudentIds, k \in SchoolIds, c \in DOMAIN capacities :
            /\ a # b
            /\ capacities[c] = 1
            /\ SchoolsOf(a) = {k} /\ SchoolsOf(b) = {k}
            /\ SameRankEarlierDate(a, b, k, c)
            /\ OnlyChoice(a, k, c) /\ OnlyChoice(b, k, c)
            /\ NoOtherTaker(a, b, c)
            => EnrolledAndWaitlisted(a, b, c)

\* the student listed second in the file filed earlier, and got the seat
TieBreakWitness ==
    /\ pc = "done"
    /\ \E a, b \in StudentIds, k \in SchoolIds, c \in DOMAIN capacities :
          /\ a > b
          /\ capacities[c] = 1
          /\ SchoolsOf(a) = {k} /\ SchoolsOf(b) = {k}
          /\ SameRankEarlierDate(a, b, k, c)
          /\ OnlyChoice(a, k, c) /\ OnlyChoice(b, k, c)
          /\ EnrolledAndWaitlisted(a, b, c)

(***************************************************************************)
(* C5: when a student group is visited, the student is enrolled in the      *)
(* class of the first of the student's eligible preferences of that school, *)
(* by rank, then submission date, whose class has a seat left at that       *)
(* moment (and in no other class); with seats in a rank-1 class and in a    *)
(* rank-2 class the student gets the rank-1 class.                          *)
(***************************************************************************)
FirstFitStep ==
    pc = "for_student" =>
        LET s == Head(groups)
            rows == EligibleOf(s, Val(school_id))
            free == {i \in rows : Seats(merged[i].class_id) > 0}
        IN  IF free = {} THEN enrollments' = enrollments
            ELSE /\ Appended(enrollments, enrollments')
                 /\ Last(enrollments').student_id = s
                 /\ \E i \in free :
                       /\ merged[i].class_id = Last(enrollments').class_id
                       /\ \A j \in free : ~Preferred(j, i)

RankPriority == [][FirstFitStep]_vars

\* enrolled in the rank-1 class while the rank-2 class still has a seat
RankPriorityWitness ==
    \E s \in StudentIds, k \in SchoolIds :
        /\ SchoolsOf(s) = {k}
        /\ \E i, j \in EligibleOf(s, k) :
              /\ merged[i].rank = 1
              /\ merged[j].rank = 2
              /\ j < i
              /\ merged[i].class_id # merged[j].class_id
              /\ Seats(merged[j].class_id) > 0
              /\ \E e \in EnrollmentsOf(s) :
                    enrollments[e].class_id = merged[i].class_id

(***************************************************************************)
(* C6: a student whose preferences are all ineligible gets no enrollment,   *)
(* no status update and no rejection record, and is never in the list of    *)
(* groups to visit.                                                         *)
(***************************************************************************)
AllIneligible(s) == \A k \in SchoolsOf(s) : EligibleOf(s, k) = {}

NoRecordsForIneligible ==
    \A s \in Processed :
        AllIneligible(s) =>
            /\ EnrollmentsOf(s) = {}
            /\ UpdatesOf(s) = {}
            /\ RejectionsOf(s) = {}
            /\ \A i \in DOMAIN groups : groups[i] # s

\* a run ended, an ineligible student next to a student of the same school
\* who got a status
IneligibleWitness ==
    /\ pc = "done"
    /\ \E s, t \in Processed :
          /\ s # t
          /\ AllIneligible(s)
          /\ SchoolsOf(s) = SchoolsOf(t)
          /\ UpdatesOf(t) # {}

(***************************************************************************)
(* C7: the visit of a student group emits one status update; it is a        *)
(* Waitlist exactly when every class of the student's eligible preferences  *)
(* of that school has 0 seats left at that moment, and then it names the    *)
(* class of the student's top-ranked eligible preference, has no assigned   *)
(* date, and one rejection record for the student is appended.  No other    *)
(* step emits a status update or a rejection record.                        *)
(***************************************************************************)
WaitlistStep ==
    IF pc = "for_student"
    THEN LET s == Head(groups)
             k == Val(school_id)
             rows == EligibleOf(s, k)
             u == Last(application_updates')
         IN  /\ Appended(application_updates, application_updates')
             /\ u.student_id = s /\ u.school_id = k
             /\ u.status \in {"Waitlist", "Approved"}
             /\ u.status = "Waitlist" <=>
                    \A i \in rows : Seats(merged[i].class_id) = 0
             /\ u.status = "Waitlist" =>
                    /\ \E i \in rows :
                          /\ \A j \in rows : ~Preferred(j, i)
                          /\ u.class_id = Some(merged[i].class_id)
                    /\ u.assigned_date = NaN
                    /\ rejection_reasons' =
                           Append(rejection_reasons,
                                  [student_id |-> s,
                                   reason |-> "No available capacity in preferred classes"])
             /\ u.status # "Waitlist" => rejection_reasons' = rejection_reasons
    ELSE /\ application_updates' = application_updates
         /\ rejection_reasons' = rejection_reasons

WaitlistExactlyWhenFull == [][WaitlistStep]_vars

\* a waitlisted student with two eligible classes, named with the better one,
\* which the file lists second
WaitlistWitness ==
    \E s \in StudentIds, k \in SchoolIds :
        \E u \in UpdatesOf(s), i, j \in EligibleOf(s, k) :
            /\ application_updates[u].status = "Waitlist"
            /\ application_updates[u].school_id = k
            /\ j < i
            /\ Preferred(i, j)
            /\ merged[i].class_id # merged[j].class_id
            /\ application_updates[u].class_id = Some(merged[i].class_id)
            /\ RejectionsOf(s) # {}

(***************************************************************************)
(* C8: the schools are visited in ascending school_id order, the remaining  *)
(* seats of a class never increase, and a class filled by students of lower *)
(* schools has no seat for a student of a higher school: a student whose    *)
(* eligible preferences of a school all name a class that the lower schools *)
(* filled is waitlisted there.                                              *)
(***************************************************************************)
ApprovedBelow(c, k) ==
    {i \in DOMAIN application_updates :
        /\ application_updates[i].status = "Approved"
        /\ application_updates[i].class_id = Some(c)
        /\ application_updates[i].school_id < k}

StatusIn(s, k, st, c) ==
    \E i \in UpdatesOf(s) :
        /\ application_updates[i].school_id = k
        /\ application_updates[i].status = st
        /\ application_updates[i].class_id = Some(c)

FilledBelow(t, k, c) ==
    /\ EligibleOf(t, k) # {}
    /\ \A i \in EligibleOf(t, k) : merged[i].class_id = c
    /\ capacities[c] > 0
    /\ Cardinality(ApprovedBelow(c, k)) = capacities[c]

AscendingSchools ==
    /\ \A i, j \in DOMAIN schools : i < j => schools[i] < schools[j]
    /\ notna(school_id) => \A i \in DOMAIN schools : Val(school_id) < schools[i]

LedgerSharedAcrossSchools ==
    /\ []AscendingSchools
    /\ [](pc = "done" =>
            \A t \in StudentIds, k \in SchoolIds, c \in DOMAIN capacities :
                FilledBelow(t, k, c) =>
                    /\ StatusIn(t, k, "Waitlist", c)
                    /\ ~StatusIn(t, k, "Approved", c))
    /\ [][/\ DOMAIN remaining_capacity' = DOMAIN remaining_capacity
          /\ \A c \in DOMAIN remaining_capacity :
                remaining_capacity'[c] <= remaining_capacity[c]]_vars

\* school 1 filled the class that is the only choice of a student of school 2
LedgerSharedWitness ==
    /\ pc = "done"
    /\ \E t \in StudentIds, c \in DOMAIN capacities :
          /\ SchoolsOf(t) = {2}
          /\ FilledBelow(t, 2, c)
          /\ StatusIn(t, 2, "Waitlist", c)

(***************************************************************************)
(* Vocabulary of the evaluator's properties: the rules as the documentation *)
(* states them.  A comma-separated list denotes the set of its pieces, the   *)
(* maximal comma-free stretches, compared character by character.           *)
(***************************************************************************)
Pieces(s) ==
    {SubSeq(s, p[1], p[2]) :
        p \in {q \in (1..(Len(s) + 1)) \X (0..Len(s)) :
                  /\ q[2] >= q[1] - 1
                  /\ q[1] = 1 \/ s[q[1] - 1] = ","
                  /\ q[2] = Len(s) \/ s[q[2] + 1] = ","
                  /\ \A x \in q[1]..q[2] : s[x] # ","}}

Blank(s) == \A i \in DOMAIN s : s[i] = " "

\* a class without prerequisites: the cell is missing or blank
NoPrerequisites(c) == isna(c.prerequisites) \/ Blank(Val(c.prerequisites))

RequiredSet(c) == IF NoPrerequisites(c) THEN {} ELSE Pieces(Val(c.prerequisites))

CompletedSet(s) ==
    IF isna(s.completed_courses) THEN {} ELSE Pieces(Val(s.completed_courses))

\* rule n fails for the pair
RuleFails(n, s, c) ==
    CASE n = 1 -> notna(c.min_age) /\ Val(s.age) < Val(c.min_age)
      [] n = 2 -> notna(c.max_age) /\ Val(s.age) > Val(c.max_age)
      [] n = 3 -> Val(c.fee_required) /\ ~Val(s.fee_paid)
      [] n = 4 -> /\ notna(c.min_score) /\ notna(s.test_score)
                  /\ Val(s.test_score) < Val(c.min_score)
      [] n = 5 -> ~(RequiredSet(c) \subseteq CompletedSet(s))
      [] n = 6 -> /\ notna(c.student_type_restrictions)
                  /\ Val(s.student_type) \notin Pieces(Val(c.student_type_restrictions))

RuleReason(n, s) ==
    CASE n = 1 -> <<"Age below minimum">>
      [] n = 2 -> <<"Age above maximum">>
      [] n = 3 -> <<"Fee not paid">>
      [] n = 4 -> <<"Test score below minimum">>
      [] n = 5 -> <<"Missing prerequisite(s)">>
      [] n = 6 -> <<"Type '", s.student_type, "' not allowed">>

Rules == 1..6

FailingRules(s, c) == {n \in Rules : RuleFails(n, s, c)}

(***************************************************************************)
(* C9: is_eligible returns (False, reason of the first failing rule) in the *)
(* order min_age, max_age, fee, min_score, prerequisites, student type, and *)
(* (True, 'Eligible') exactly when no rule fails; the prerequisites rule    *)
(* passes iff the required set is a subset of the completed set.            *)
(***************************************************************************)
FirstFailingRule ==
    pc = "return" =>
        LET failing == FailingRules(student_row, class_row)
        IN  IF failing = {}
            THEN result = Some([eligible |-> TRUE, reason |-> <<"Eligible">>])
            ELSE \E n \in failing :
                    /\ \A m \in failing : n <= m
                    /\ result = Some([eligible |-> FALSE,
                                      reason |-> RuleReason(n, student_row)])

\* three rules fail at once and the earliest of them gives the reason
FirstFailingRuleWitness ==
    /\ pc = "return"
    /\ FailingRules(student_row, class_row) = {2, 3, 5}
    /\ Val(result).reason = <<"Age above maximum">>

(***************************************************************************)
(* C10: a rule whose class field is unset never gives the reason; a student *)
(* without a test score is never rejected for the score; a student without  *)
(* completed courses, passing the other rules, is eligible iff the class    *)
(* has no prerequisites.                                                    *)
(***************************************************************************)
UnsetFieldsImposeNoConstraint ==
    pc = "return" =>
        LET s == student_row
            c == class_row
            r == Val(result)
        IN  /\ isna(c.min_age) => r.reason # RuleReason(1, s)
            /\ isna(c.max_age) => r.reason # RuleReason(2, s)
            /\ isna(c.min_score) => r.reason # RuleReason(4, s)
            /\ isna(c.prerequisites) => r.reason # RuleReason(5, s)
            /\ isna(c.student_type_restrictions) => r.reason # RuleReason(6, s)
            /\ isna(s.test_score) => r.reason # RuleReason(4, s)
            /\ isna(s.completed_courses) /\ FailingRules(s, c) \subseteq {5} =>
                   (r.eligible <=> NoPrerequisites(c))

\* no test score against a class with a minimum score: eligible
UnsetFieldsWitness ==
    /\ pc = "return"
    /\ isna(student_row.test_score)
    /\ notna(class_row.min_score)
    /\ isna(student_row.completed_courses)
    /\ isna(class_row.prerequisites)
    /\ Val(result).eligible

(***************************************************************************)
(* Vocabulary of the order of the eligible rows of the current school.     *)
(***************************************************************************)
\* the row of the joined table that a sorted row of the current school came from
Src(r) ==
    CHOOSE i \in DOMAIN merged :
        /\ merged[i].student_id = r.student_id
        /\ merged[i].class_id = r.class_id
        /\ merged[i].school_id = school_id

EligibleHere ==
    {i \in DOMAIN merged :
        merged[i].school_id = school_id /\ is_eligible(merged[i], merged[i]).eligible}

\* a sorts strictly before b by score: higher first, a missing score after all
ScoreFirst(a, b) ==
    /\ notna(a.test_score)
    /\ isna(b.test_score) \/ Val(a.test_score) > Val(b.test_score)

\* row a has its place before row b
InOrder(a, b) ==
    \/ a.rank < b.rank
    \/ /\ a.rank = b.rank
       /\ \/ Val(a.submission_date) < Val(b.submission_date)
          \/ /\ a.submission_date = b.submission_date
             /\ \/ ScoreFirst(a, b)
                \/ ~ScoreFirst(b, a) /\ Src(a) < Src(b)

\* position of the first sorted row of a student
FirstPos(s) ==
    CHOOSE p \in DOMAIN eligible_prefs :
        /\ eligible_prefs[p].student_id = s
        /\ \A q \in DOMAIN eligible_prefs : eligible_prefs[q].student_id = s => p <= q

StudentsHere == {eligible_prefs[p].student_id : p \in DOMAIN eligible_prefs}

UpdatesHere ==
    {u \in DOMAIN application_updates :
        Some(application_updates[u].school_id) = school_id}

(***************************************************************************)
(* C11: while the students of a school are visited, the sorted rows are the *)
(* eligible rows of the school, each once, ordered by rank ascending, then  *)
(* submission date ascending, then test score descending with a missing     *)
(* score after every score, then input order; and the students are visited  *)
(* in the order of their first row in this order.                           *)
(***************************************************************************)
SortedEligibleRows ==
    pc = "for_student" =>
        /\ {Src(eligible_prefs[p]) : p \in DOMAIN eligible_prefs} = EligibleHere
        /\ Len(eligible_prefs) = Cardinality(EligibleHere)
        /\ \A p, q \in DOMAIN eligible_prefs :
              p < q => InOrder(eligible_prefs[p], eligible_prefs[q])
        /\ \A i, j \in DOMAIN groups :
              i < j => FirstPos(groups[i]) < FirstPos(groups[j])
        /\ \A u, v \in UpdatesHere :
              u < v => FirstPos(application_updates[u].student_id)
                          < FirstPos(application_updates[v].student_id)
        /\ \A u \in UpdatesHere, i \in DOMAIN groups :
              FirstPos(application_updates[u].student_id) < FirstPos(groups[i])
        /\ StudentsHere = {groups[i] : i \in DOMAIN groups}
                          \cup {application_updates[u].student_id : u \in UpdatesHere}

\* the student without a score is first in the file, ties on rank and date with
\* a student of the lowest score, and is sorted and visited after that student
SortedEligibleWitness ==
    /\ pc = "for_student"
    /\ \E p, q \in DOMAIN eligible_prefs :
          LET a == eligible_prefs[p]
              b == eligible_prefs[q]
          IN  /\ p < q
              /\ a.rank = b.rank /\ a.submission_date = b.submission_date
              /\ a.test_score = Some(1) /\ isna(b.test_score)
              /\ Src(b) < Src(a)
              /\ FirstPos(b.student_id) = q
              /\ groups = <<b.student_id>>

(***************************************************************************)
(* C12: the lists are sets of tags without the whitespace around them:      *)
(* is_eligible returns the reason of the first failing rule, or (True,      *)
(* 'Eligible'), where the prerequisites rule and the student-type rule      *)
(* compare the trimmed tags (completed 'A,B' satisfies prerequisites        *)
(* 'A, B', type 'X' is allowed by 'Y, X').                                  *)
(***************************************************************************)
Tags(s) == {strip(x) : x \in Pieces(s)}

TrimmedRuleFails(n, s, c) ==
    CASE n = 5 -> /\ ~NoPrerequisites(c)
                  /\ ~(Tags(Val(c.prerequisites)) \subseteq
                         (IF isna(s.completed_courses) THEN {}
                          ELSE Tags(Val(s.completed_courses))))
      [] n = 6 -> /\ notna(c.student_type_restrictions)
                  /\ strip(Val(s.student_type))
                         \notin Tags(Val(c.student_type_restrictions))
      [] OTHER -> RuleFails(n, s, c)

WhitespaceInsensitiveParsing ==
    pc = "return" =>
        LET failing == {n \in Rules : TrimmedRuleFails(n, student_row, class_row)}
        IN  IF failing = {}
            THEN result = Some([eligible |-> TRUE, reason |-> <<"Eligible">>])
            ELSE \E n \in failing :
                    /\ \A m \in failing : n <= m
                    /\ result = Some([eligible |-> FALSE,
                                      reason |-> RuleReason(n, student_row)])

(***************************************************************************)
(* C13: in every state the k-th enrollment of the list has the id number    *)
(* 1000 + k, so the ids are pairwise distinct and increase in the order of  *)
(* emission; and a step only appends to the list: a record once emitted is  *)
(* neither changed nor removed.                                             *)
(***************************************************************************)
EnrollmentIdsSequential ==
    /\ [](/\ \A k \in DOMAIN enrollments : enrollments[k].enrollment_id = 1000 + k
          /\ \A i, j \in DOMAIN enrollments :
                i < j => enrollments[i].enrollment_id < enrollments[j].enrollment_id)
    /\ [][/\ Len(enrollments') \in {Len(enrollments), Len(enrollments) + 1}
          /\ SubSeq(enrollments', 1, Len(enrollments)) = enrollments]_vars

\* a run ended with two enrollments of one student, E1001 and E1002
EnrollmentIdsWitness ==
    /\ pc = "done"
    /\ Len(enrollments) = 2
    /\ enrollments[1].student_id = enrollments[2].student_id
    /\ enrollments[1].enrollment_id = 1001
    /\ enrollments[2].enrollment_id = 1002

(***************************************************************************)
(* C14: a class id without a classes row has no seat: the ledger has an     *)
(* entry for the classes rows only, no enrollment names another class, and  *)
(* after the run a student whose eligible preferences of a school all name  *)
(* such a class is waitlisted in that school and not approved.              *)
(***************************************************************************)
KnownClasses == {classes_df[i].class_id : i \in DOMAIN classes_df}

OnlyUnknown(s, k) ==
    /\ EligibleOf(s, k) # {}
    /\ \A i \in EligibleOf(s, k) : merged[i].class_id \notin KnownClasses

UnknownClassHasNoSeat ==
    /\ DOMAIN remaining_capacity = KnownClasses
    /\ \A e \in DOMAIN enrollments : enrollments[e].class_id \in KnownClasses
    /\ pc = "done" =>
          \A s \in Processed :
              \A k \in SchoolsOf(s) :
                  OnlyUnknown(s, k) =>
                      \A u \in UpdatesOf(s) :
                          application_updates[u].school_id = k =>
                              application_updates[u].status = "Waitlist"
    /\ pc = "done" =>
          \A s \in Processed :
              \A k \in SchoolsOf(s) :
                  OnlyUnknown(s, k) =>
                      \E u \in UpdatesOf(s) : application_updates[u].school_id = k

\* one student got the seat of class 1, the other one asked for class 2 only
\* and is waitlisted with class 2
UnknownClassWitness ==
    /\ pc = "done"
    /\ Len(enrollments) = 1
    /\ \E s \in Processed :
          /\ OnlyUnknown(s, 1)
          /\ StatusIn(s, 1, "Waitlist", 2)
          /\ 2 \notin DOMAIN remaining_capacity
          /\ enrollments[1].student_id # s

WaitlistedIn(x, k) ==
    \E u \in UpdatesOf(x) :
        /\ application_updates[u].school_id = k
        /\ application_updates[u].status = "Waitlist"

FairnessByRank ==
    pc = "done" =>
        \A x, y \in Processed :
            \A k \in SchoolsOf(x) \cap SchoolsOf(y) :
                \A i \in EligibleOf(x, k), j \in EligibleOf(y, k) :
                    /\ WaitlistedIn(x, k)
                    /\ merged[i].class_id = merged[j].class_id
                    /\ \E e \in EnrollmentsOf(y) :
                          enrollments[e].class_id = merged[j].class_id
                    => merged[j].rank <= merged[i].rank

(***************************************************************************)
(* C16 amended: after the run, if student x is waitlisted in school k and   *)
(* holds an eligible preference for class c, then every student approved    *)
(* for c in school k has a best eligible rank in k that is not worse than   *)
(* the best eligible rank of x in k (the students are compared by their     *)
(* best preference, whatever its class, not by their preference for c).     *)
(***************************************************************************)
BestRank(s, k) ==
    CHOOSE r \in {merged[i].rank : i \in EligibleOf(s, k)} :
        \A i \in EligibleOf(s, k) : r <= merged[i].rank

FairnessByBestRank ==
    pc = "done" =>
        \A x, y \in Processed :
            \A k \in SchoolsOf(x) \cap SchoolsOf(y) :
                \A i \in EligibleOf(x, k) :
                    WaitlistedIn(x, k) /\ StatusIn(y, k, "Approved", merged[i].class_id)
                    => BestRank(y, k) <= BestRank(x, k)

\* x asked for c first, y second after a full class at rank 1, filed earlier,
\* and y has the seat of c
FairnessWitness ==
    /\ pc = "done"
    /\ \E x, y \in Processed :
          \E i \in EligibleOf(x, 1), j \in EligibleOf(y, 1) :
              /\ WaitlistedIn(x, 1)
              /\ merged[i].class_id = merged[j].class_id
              /\ StatusIn(y, 1, "Approved", merged[j].class_id)
              /\ merged[i].rank = 1
              /\ merged[j].rank = 2
              /\ BestRank(y, 1) = 1

(***************************************************************************)
(* C17: every enrollment (s, c) has a preferences row of s for c, an         *)
(* applications row of s, and is_eligible true for the students row of s    *)
(* and the classes row of c; and the step that emits it finds at least one  *)
(* seat of c left and is the visit of s in a school s applies to.           *)
(***************************************************************************)
Listed(s, c) ==
    \E p \in DOMAIN preferences_df :
        preferences_df[p].student_id = s /\ preferences_df[p].class_id = c

AppliesTo(s, k) ==
    \E a \in DOMAIN applications_df :
        applications_df[a].student_id = s /\ applications_df[a].school_id = Some(k)

EligibleFor(s, c) ==
    \E i \in DOMAIN students_df, j \in DOMAIN classes_df :
        /\ students_df[i].student_id = s
        /\ classes_df[j].class_id = c
        /\ is_eligible(StudentColumns(students_df[i]),
                       ClassColumns(classes_df[j])).eligible

EnrolledOnlyWhereEligible ==
    /\ [](\A e \in DOMAIN enrollments :
             /\ Listed(enrollments[e].student_id, enrollments[e].class_id)
             /\ \E k \in SchoolIds : AppliesTo(enrollments[e].student_id, k)
             /\ EligibleFor(enrollments[e].student_id, enrollments[e].class_id))
    /\ [][enrollments' # enrollments =>
              /\ Appended(enrollments, enrollments')
              /\ Seats(Last(enrollments').class_id) > 0
              /\ notna(school_id)
              /\ AppliesTo(Last(enrollments').student_id, Val(school_id))]_vars

\* a student too old for the class of rank 1, which keeps its seat, is enrolled
\* in the class of rank 2
EnrolledEligibleWitness ==
    /\ pc = "done"
    /\ \E e \in DOMAIN enrollments :
          LET s == enrollments[e].student_id
          IN  /\ enrollments[e].class_id = 2
              /\ Listed(s, 1)
              /\ ~EligibleFor(s, 1)
              /\ Seats(1) > 0
              /\ \E i, j \in DOMAIN merged :
                    /\ merged[i].student_id = s /\ merged[j].student_id = s
                    /\ merged[i].class_id = 1 /\ merged[j].class_id = 2
                    /\ merged[i].rank < merged[j].rank

(***************************************************************************)
(* C18: in every state the Approved updates, in order, are the enrollments, *)
(* in order, student for student and class for class (so there are as many  *)
(* of the one as of the other); an update has an assigned date iff it is    *)
(* Approved; and a step appends an enrollment iff it appends an Approved    *)
(* update.                                                                  *)
(***************************************************************************)
ApprovedUpdates == SelectSeq(application_updates, LAMBDA u : u.status = "Approved")

ApprovedMatchesEnrollments ==
    /\ [](/\ Len(ApprovedUpdates) = Len(enrollments)
          /\ \A i \in DOMAIN enrollments :
                /\ ApprovedUpdates[i].student_id = enrollments[i].student_id
                /\ ApprovedUpdates[i].class_id = Some(enrollments[i].class_id)
          /\ \A u \in DOMAIN application_updates :
                notna(application_updates[u].assigned_date)
                    <=> application_updates[u].status = "Approved")
    /\ [][enrollments' # enrollments <=>
              /\ application_updates' # application_updates
              /\ Last(application_updates').status = "Approved"]_vars

\* a run ended with an approved, a waitlisted and again an approved student
ApprovedMatchesWitness ==
    /\ pc = "done"
    /\ Len(application_updates) = 3
    /\ application_updates[1].status = "Approved"
    /\ application_updates[2].status = "Waitlist"
    /\ application_updates[3].status = "Approved"
    /\ Len(enrollments) = 2

(***************************************************************************)
(* C19: after the run, for every student with a Waitlist update in a school *)
(* k, every class of the student's eligible preferences in k has 0 seats    *)
(* left in the ledger.                                                      *)
(***************************************************************************)
NoSeatLeftForWaitlisted ==
    pc = "done" =>
        \A s \in Processed :
            \A k \in SchoolsOf(s) :
                WaitlistedIn(s, k) =>
                    \A i \in EligibleOf(s, k) : Seats(merged[i].class_id) = 0

\* a waitlisted student with two eligible classes, both with seats at the
\* start and none at the end
NoSeatLeftWitness ==
    /\ pc = "done"
    /\ \E s \in Processed :
          \E k \in SchoolsOf(s) :
              /\ WaitlistedIn(s, k)
              /\ \E i, j \in EligibleOf(s, k) :
                    /\ merged[i].class_id # merged[j].class_id
                    /\ capacities[merged[i].class_id] > 0
                    /\ capacities[merged[j].class_id] > 0
                    /\ Seats(merged[i].class_id) = 0
                    /\ Seats(merged[j].class_id) = 0

(***************************************************************************)
(* C20: every status update, Approved or Waitlist, names a class, and the   *)
(* class is that of one of the student's eligible preferences in the school *)
(* of the update; a student waiting for the visit of the current school has *)
(* an eligible preference there (no group is empty).                        *)
(***************************************************************************)
UpdatesNameEligibleClass ==
    /\ \A u \in DOMAIN application_updates :
          LET upd == application_updates[u]
          IN  /\ upd.status \in {"Approved", "Waitlist"}
              /\ notna(upd.class_id)
              /\ \E i \in EligibleOf(upd.student_id, upd.school_id) :
                    merged[i].class_id = Val(upd.class_id)
    /\ \A g \in DOMAIN groups : EligibleOf(groups[g], Val(school_id)) # {}

\* a run ended with an approved student and a waitlisted student in school 2,
\* the waitlisted one named with a class that never had a seat
UpdatesNameWitness ==
    /\ pc = "done"
    /\ \E u, v \in DOMAIN application_updates :
          /\ application_updates[u].status = "Approved"
          /\ application_updates[v].status = "Waitlist"
          /\ application_updates[u].school_id = 2
          /\ application_updates[v].school_id = 2
          /\ notna(application_updates[v].class_id)
          /\ capacities[Val(application_updates[v].class_id)] = 0

====
